---- MODULE Spec2Model ----
(***************************************************************************)
(* A model of groupme.js: the API client (request, uploadPicture and the   *)
(* bindings over request), the attachment and message classes, and the Bot *)
(* facade.  JavaScript values are tagged records, strings are TLA+ strings *)
(* and objects are property lists in insertion order.  An action is one    *)
(* run-to-completion turn of the event loop: a call made by the program    *)
(* up to its first suspension, or the settling of a file read or of an     *)
(* HTTP exchange together with the continuations it resumes.               *)
(***************************************************************************)
EXTENDS Integers, Sequences, FiniteSets, TLC

VARIABLES GM_TOKEN, bots, calls, net

vars == <<GM_TOKEN, bots, calls, net>>

----------------------------------------------------------------------------
(* JavaScript values *)

undefined == [t |-> "undefined"]
null == [t |-> "null"]
Str(s) == [t |-> "string", s |-> s]
Num(n) == [t |-> "number", n |-> n]
Bool(b) == [t |-> "boolean", b |-> b]
Arr(a) == [t |-> "array", a |-> a]
Prop(k, v) == [k |-> k, v |-> v]
Obj(p) == [t |-> "object", o |-> p]

\* The completion of an evaluation: a value returned or an error thrown.
Return(v) == [k |-> "return", v |-> v]
Throw(e) == [k |-> "throw", v |-> e]
Pending == [k |-> "pending", v |-> undefined]

\* ToBoolean, as applied by `!x`, `x && y`, `x || y` and `if (x)`.
Truthy(v) ==
    CASE v.t = "undefined" -> FALSE
      [] v.t = "null" -> FALSE
      [] v.t = "string" -> v.s # ""
      [] v.t = "number" -> v.n # 0
      [] v.t = "boolean" -> v.b
      [] OTHER -> TRUE

\* A property read `v.k` throws a TypeError on undefined and null.
CanRead(v) == v.t \notin {"undefined", "null"}

Has(v, k) == v.t = "object" /\ \E i \in 1..Len(v.o) : v.o[i].k = k

\* The property read `v.k` of a value that can be read (own data properties
\* only: the model's objects carry no property named like a built-in).
Get(v, k) ==
    IF Has(v, k)
    THEN v.o[CHOOSE i \in 1..Len(v.o) : v.o[i].k = k].v
    ELSE undefined

\* `{ ...a, k: v }` for one property: an existing key keeps its position.
SetProp(p, k, v) ==
    IF \E i \in 1..Len(p) : p[i].k = k
    THEN [i \in 1..Len(p) |-> IF p[i].k = k THEN Prop(k, v) ELSE p[i]]
    ELSE Append(p, Prop(k, v))

RECURSIVE SpreadProps(_, _)
\* `{ ...p, ...q }` on property lists.
SpreadProps(p, q) ==
    IF q = <<>> THEN p
    ELSE SpreadProps(SetProp(p, Head(q).k, Head(q).v), Tail(q))

\* `{ ...a, ...b }`: spreading undefined or null adds nothing.
Spread(a, b) ==
    Obj(SpreadProps(IF a.t = "object" THEN a.o ELSE <<>>,
                    IF b.t = "object" THEN b.o ELSE <<>>))

\* String(v) for the primitives the model uses.
String(v) ==
    CASE v.t = "string" -> v.s
      [] v.t = "number" -> ToString(v.n)
      [] v.t = "boolean" -> IF v.b THEN "true" ELSE "false"
      [] v.t = "null" -> "null"
      [] OTHER -> "undefined"

RECURSIVE join(_, _)
\* Array.prototype.join on a list of elements: null and undefined elements
\* are joined as the empty string.
join(a, sep) ==
    IF a = <<>> THEN ""
    ELSE LET h == IF CanRead(Head(a)) THEN String(Head(a)) ELSE ""
         IN  IF Len(a) = 1 THEN h ELSE h \o sep \o join(Tail(a), sep)

RECURSIVE JSONstringify(_)
RECURSIVE stringifyProps(_, _)
RECURSIVE stringifyItems(_)
\* The members of an object: a property whose value is undefined is left out.
stringifyProps(p, first) ==
    IF p = <<>> THEN ""
    ELSE IF Head(p).v.t = "undefined" THEN stringifyProps(Tail(p), first)
    ELSE (IF first THEN "" ELSE ",") \o "\"" \o Head(p).k \o "\":"
         \o JSONstringify(Head(p).v) \o stringifyProps(Tail(p), FALSE)
\* The elements of an array: an undefined element is written as null.
stringifyItems(a) ==
    IF a = <<>> THEN ""
    ELSE (IF Head(a).t = "undefined" THEN "null" ELSE JSONstringify(Head(a)))
         \o (IF Len(a) = 1 THEN "" ELSE "," \o stringifyItems(Tail(a)))
\* JSON.stringify of a value other than undefined (strings of the model hold
\* no character that needs escaping).
JSONstringify(v) ==
    CASE v.t = "string" -> "\"" \o v.s \o "\""
      [] v.t = "array" -> "[" \o stringifyItems(v.a) \o "]"
      [] v.t = "object" -> "{" \o stringifyProps(v.o, TRUE) \o "}"
      [] OTHER -> String(v)

\* Error objects.  ApiError is the class of the client; the others are the
\* errors the runtime raises.
Err(name, statusCode, message, responseJSON) ==
    [t |-> "error", name |-> name, statusCode |-> statusCode,
     message |-> message, responseJSON |-> responseJSON]
ApiError(statusCode, message, responseJSON) ==
    Err("ApiError", statusCode, message, responseJSON)
TypeError(message) == Err("TypeError", undefined, message, undefined)
SyntaxError(message) == Err("SyntaxError", undefined, message, undefined)

----------------------------------------------------------------------------
(* Strings, paths and JSON texts *)

UpperCase == "ABCDEFGHIJKLMNOPQRSTUVWXYZ"
LowerCase == "abcdefghijklmnopqrstuvwxyz"

CharAt(s, i) == SubSeq(s, i, i)

RECURSIVE toLowerCase(_)
\* String.prototype.toLowerCase on ASCII text.
toLowerCase(s) ==
    IF s = "" THEN ""
    ELSE LET c == CharAt(s, 1)
             up == {i \in 1..Len(UpperCase) : CharAt(UpperCase, i) = c}
         IN  (IF up = {} THEN c ELSE CharAt(LowerCase, CHOOSE i \in up : TRUE))
             \o toLowerCase(SubSeq(s, 2, Len(s)))

\* The position of the last occurrence of the character c in s, or 0.
LastIndexOf(s, c) ==
    LET at == {i \in 1..Len(s) : CharAt(s, i) = c}
    IN  IF at = {} THEN 0 ELSE CHOOSE i \in at : \A j \in at : j <= i

\* path.extname: from the last "." of the last path segment to its end; empty
\* when the segment has no "." or only a leading one.
extname(p) ==
    LET base == SubSeq(p, LastIndexOf(p, "/") + 1, Len(p))
        dot == LastIndexOf(base, ".")
    IN  IF dot <= 1 THEN "" ELSE SubSeq(base, dot, Len(base))

\* String.prototype.startsWith(prefix) on a string.
startsWith(s, prefix) ==
    Len(prefix) <= Len(s) /\ SubSeq(s, 1, Len(prefix)) = prefix

\* The JSON documents a server of the model answers with.
JSONDocs ==
    { null,
      Num(0),
      Obj(<<Prop("meta", Obj(<<Prop("code", Num(201))>>)),
            Prop("response", Obj(<<Prop("bot", Obj(<<Prop("bot_id", Str("b1"))>>))>>))>>),
      Obj(<<Prop("response", Obj(<<Prop("bot", Obj(<<Prop("bot_id", Str(""))>>))>>))>>),
      Obj(<<Prop("response", null)>>),
      Obj(<<Prop("payload", Obj(<<Prop("url", Str("https://i.groupme.com/p1"))>>))>>),
      Obj(<<Prop("meta", Obj(<<Prop("code", Num(404)),
                               Prop("errors", Arr(<<Str("not found")>>))>>)),
            Prop("response", null)>>),
      Obj(<<Prop("meta", Obj(<<Prop("code", Num(400)),
                               Prop("errors", Arr(<<Str("a"), Str("b")>>))>>))>>),
      Obj(<<Prop("meta", Obj(<<Prop("code", Num(500))>>))>>) }

\* Texts that are not JSON.
NotJSON == {"<html>"}

\* JSON.parse: the document whose text this is, a SyntaxError for any other
\* text (the empty text included).
JSONparse(text) ==
    IF \E d \in JSONDocs : JSONstringify(d) = text
    THEN Return(CHOOSE d \in JSONDocs : JSONstringify(d) = text)
    ELSE Throw(SyntaxError("Unexpected token"))

\* `a >= n` for a number a; undefined converts to NaN and compares false.
GreaterEq(a, n) == a.t = "number" /\ a.n >= n

----------------------------------------------------------------------------
(* api.js: the client *)

BASE_URL == "https://api.groupme.com/v3"

\* getAccessToken without its check of the token.
getAccessTokenUnchecked(env) == Return(env)

\* static getAccessToken(), reading process.env.GM_TOKEN.
getAccessToken(env) ==
    IF ~Truthy(env)
    THEN Throw(ApiError(Num(401),
           "Access token is required. Set it via the GM_TOKEN environment variable.",
           null))
    ELSE Return(env)

RECURSIVE URLSearchParams(_)
\* new URLSearchParams(obj).toString() on the properties of obj.
URLSearchParams(p) ==
    IF p = <<>> THEN ""
    ELSE Head(p).k \o "=" \o String(Head(p).v)
         \o (IF Len(p) = 1 THEN "" ELSE "&" \o URLSearchParams(Tail(p)))

\* A call of request(method, path, body, params), as a binding makes it: an
\* argument left out is undefined.
RequestArgs(method, path, body, params) ==
    [method |-> method, path |-> path, body |-> body, params |-> params]

\* request, up to its fetch: the HTTP request it sends, or the error thrown
\* before any.  The defaults body = null and params = {} replace undefined.
requestFetch(env, a) ==
    LET body == IF a.body = undefined THEN null ELSE a.body
        params == IF a.params = undefined THEN Obj(<<>>) ELSE a.params
        token == getAccessToken(env)
    IN  IF token.k = "throw" THEN token
        ELSE LET query == URLSearchParams(Spread(Obj(<<Prop("token", token.v)>>), params).o)
             IN  Return([method |-> a.method,
                         url |-> BASE_URL \o a.path \o "?" \o query,
                         headers |-> Obj(<<Prop("Content-Type", Str("application/json"))>>),
                         body |-> IF Truthy(body) THEN Str(JSONstringify(body))
                                  ELSE undefined])

\* request, after JSON.parse: the envelope check and the unwrapping.
requestUnwrap(status, responseJSON) ==
    LET meta == Get(responseJSON, "meta")
    IN  IF Truthy(responseJSON) /\ Truthy(meta) /\ GreaterEq(Get(meta, "code"), 400)
        THEN LET errors == Get(meta, "errors")
             IN  IF errors.t # "array"
                 THEN Throw(TypeError(
                        IF CanRead(errors)
                        THEN "responseJSON.meta.errors.join is not a function"
                        ELSE "Cannot read properties of undefined (reading 'join')"))
                 ELSE Throw(ApiError(Num(status),
                                     "API Error: " \o join(errors.a, ", "),
                                     responseJSON))
        ELSE IF ~CanRead(responseJSON)
        THEN Throw(TypeError("Cannot read properties of null (reading 'response')"))
        ELSE IF Get(responseJSON, "response") # undefined
        THEN Return(Get(responseJSON, "response"))
        ELSE Return(responseJSON)

\* requestResult without the early return on 202 and 204.
requestResultReadsAll(response) ==
    IF response.text = ""
    THEN [result |-> Return(null), bodyRead |-> TRUE]
    ELSE LET parsed == JSONparse(response.text)
         IN  [result |->
                IF parsed.k = "throw"
                THEN Throw(ApiError(Num(response.status),
                           "Invalid JSON response: " \o parsed.v.message, null))
                ELSE requestUnwrap(response.status, parsed.v),
              bodyRead |-> TRUE]

\* request, from the response of its fetch on: the completion of the call and
\* whether the body of the response was read.
requestResult(response) ==
    IF response.status = 202 \/ response.status = 204
    THEN [result |-> Return(null), bodyRead |-> FALSE]
    ELSE IF response.text = ""
    THEN [result |-> Return(null), bodyRead |-> TRUE]
    ELSE LET parsed == JSONparse(response.text)
         IN  [result |->
                IF parsed.k = "throw"
                THEN Throw(ApiError(Num(response.status),
                           "Invalid JSON response: " \o parsed.v.message, null))
                ELSE requestUnwrap(response.status, parsed.v),
              bodyRead |-> TRUE]

getMe == RequestArgs("GET", "/users/me", undefined, undefined)
getGroups(params) ==
    RequestArgs("GET", "/groups", null,
        IF params = undefined
        THEN Obj(<<Prop("page", Num(1)), Prop("per_page", Num(10)),
                   Prop("omit", Str("memberships"))>>)
        ELSE params)
getBots == RequestArgs("GET", "/bots", undefined, undefined)
\* createBot takes two parameters: a third argument of a call is dropped.
createBot(name, group_id) ==
    RequestArgs("POST", "/bots",
        Obj(<<Prop("bot", Obj(<<Prop("name", name), Prop("group_id", group_id)>>))>>),
        undefined)
postBot(bot_id, text, attachments) ==
    RequestArgs("POST", "/bots/post",
        Obj(<<Prop("bot_id", bot_id), Prop("text", text),
              Prop("attachments", IF attachments = undefined THEN Arr(<<>>)
                                  ELSE attachments)>>),
        undefined)
destroyBot(botId) ==
    RequestArgs("POST", "/bots/destroy", Obj(<<Prop("bot_id", botId)>>), undefined)
destroyBlock(userId) ==
    RequestArgs("DELETE", "/blocks", null, Obj(<<Prop("user", userId)>>))

\* uploadPicture, up to its fetch: the header object is built, and the token
\* read, before fetch is called.
uploadPictureFetch(env, fileBuffer, contentType) ==
    LET token == getAccessToken(env)
    IN  IF token.k = "throw" THEN token
        ELSE Return([method |-> "POST",
                     url |-> "https://image.groupme.com/pictures",
                     headers |-> Obj(<<Prop("X-Access-Token", token.v),
                                       Prop("Content-Type", contentType)>>),
                     body |-> fileBuffer])

\* uploadPicture, from the response of its fetch on.
uploadPictureResult(response) ==
    IF ~(response.status >= 200 /\ response.status <= 299)
    THEN [result |-> Throw(ApiError(Num(response.status),
                       "Image Service Error: " \o response.statusText, null)),
          bodyRead |-> FALSE]
    ELSE LET data == JSONparse(response.text)
         IN  [result |->
                IF data.k = "throw" THEN data
                ELSE IF ~CanRead(data.v)
                THEN Throw(TypeError("Cannot read properties of null (reading 'payload')"))
                ELSE IF ~CanRead(Get(data.v, "payload"))
                THEN Throw(TypeError("Cannot read properties of undefined (reading 'url')"))
                ELSE Return(Get(Get(data.v, "payload"), "url")),
              bodyRead |-> TRUE]

\* class Attachment, LocationAttachment, ImageAttachment.
Attachment(type) == Obj(<<Prop("type", Str(type))>>)
LocationAttachment(lat, lng, name) ==
    Obj(Attachment("location").o
        \o <<Prop("lat", Str(String(lat))), Prop("lng", Str(String(lng))),
             Prop("name", name)>>)
ImageAttachment(url) == Obj(Attachment("image").o \o <<Prop("url", url)>>)

\* fromFileType without the default for an extension the table lacks.
fromFileTypeNoDefault(filePath, fileType) ==
    IF ~Truthy(fileType)
    THEN LET ext == toLowerCase(extname(filePath))
             mimeTypes == Obj(<<Prop(".png", Str("image/png")),
                                Prop(".jpg", Str("image/jpeg")),
                                Prop(".jpeg", Str("image/jpeg")),
                                Prop(".gif", Str("image/gif"))>>)
         IN  Get(mimeTypes, ext)
    ELSE fileType

\* The content type fromFile uploads with.
fromFileType(filePath, fileType) ==
    IF ~Truthy(fileType)
    THEN LET ext == toLowerCase(extname(filePath))
             mimeTypes == Obj(<<Prop(".png", Str("image/png")),
                                Prop(".jpg", Str("image/jpeg")),
                                Prop(".jpeg", Str("image/jpeg")),
                                Prop(".gif", Str("image/gif"))>>)
         IN  IF Truthy(Get(mimeTypes, ext)) THEN Get(mimeTypes, ext)
             ELSE Str("application/octet-stream")
    ELSE fileType

\* class Message: the constructor copies the fields of the payload.
Message(data) ==
    [attachments |-> IF Truthy(Get(data, "attachments")) THEN Get(data, "attachments")
                     ELSE Arr(<<>>),
     senderType |-> Get(data, "sender_type"),
     text |-> Get(data, "text")]

isFromUser(this) == Bool(this.senderType = Str("user"))

\* Message.startsWith(trigger): `this.text && this.text.startsWith(trigger)`.
Message_startsWith(this, trigger) ==
    IF ~Truthy(this.text) THEN Return(this.text)
    ELSE IF this.text.t # "string"
    THEN Throw(TypeError("this.text.startsWith is not a function"))
    ELSE Return(Bool(startsWith(this.text.s, String(trigger))))

----------------------------------------------------------------------------
(* bot.js: the Bot facade *)

\* The constructor without its check of the identifier.
BotUnchecked(botId) == Return([botId |-> botId])

\* constructor(botId): the new object, or the error thrown.
Bot(botId) ==
    IF ~Truthy(botId)
    THEN Throw(Err("Error", undefined, "Bot ID is required", undefined))
    ELSE Return([botId |-> botId])

\* Bot.create, up to its await: the call of API.createBot.
Bot_createCall(name, groupId, options) == createBot(name, groupId)

\* Bot.create, resumed with the completion of API.createBot.
Bot_createResume(c) ==
    IF c.k = "throw" THEN c
    ELSE IF ~CanRead(c.v)
    THEN Throw(TypeError("Cannot read properties of null (reading 'bot')"))
    ELSE IF ~CanRead(Get(c.v, "bot"))
    THEN Throw(TypeError("Cannot read properties of undefined (reading 'bot_id')"))
    ELSE Bot(Get(Get(c.v, "bot"), "bot_id"))

\* sendMessage passing no attachments on.
sendMessageCallTextOnly(this, text, attachments) ==
    postBot(this.botId, text, undefined)

\* sendMessage, up to its await: the call of API.postBot.
sendMessageCall(this, text, attachments) ==
    postBot(this.botId, text, IF attachments = undefined THEN Arr(<<>>) ELSE attachments)

\* sendMessage, resumed with the completion of API.postBot.
sendMessageResume(c) == IF c.k = "throw" THEN c ELSE Return(undefined)

\* fromFile, resumed with the completion of fs.readFile: the upload it calls.
fromFileUpload(env, filePath, fileType) ==
    uploadPictureFetch(env, [t |-> "buffer", file |-> filePath],
                       fromFileType(filePath, fileType))

\* fromFile making an attachment of whatever the upload ended with.
fromFileResumeAlways(c) ==
    Return(ImageAttachment(IF c.k = "throw" THEN undefined ELSE c.v))

\* fromFile, resumed with the completion of API.uploadPicture.
fromFileResume(c) == IF c.k = "throw" THEN c ELSE Return(ImageAttachment(c.v))

----------------------------------------------------------------------------
(* Bounds and inputs *)

MaxBots == 2
MaxCalls == 3

Slots == 1..MaxCalls

Tokens == {undefined, Str(""), Str("tok")}
BotIds == {undefined, null, Str(""), Str("b7")}
BotNames == {Str("Test")}
GroupIds == {Str("123")}
BotOptions ==
    { undefined,
      Obj(<<Prop("active", Bool(TRUE))>>),
      Obj(<<Prop("callback_url", Str("https://x.test/hook")),
            Prop("dm_notification", Bool(FALSE))>>) }
Texts == {Str("hi")}
AttachmentLists ==
    {undefined, Arr(<<LocationAttachment(Num(1), Num(2), Str("x"))>>)}
FilePaths ==
    {"./a.png", "./b.jpg", "pics/c.jpeg", "./d.gif", "./E.PNG", "./f.txt", "./noext"}
ImagePaths == {"./a.png"}
FileTypes == {undefined, Str(""), Str("image/webp")}
\* The calls of fromFile: every path without a type, two paths with each type.
FromFileInputs ==
    {<<p, undefined>> : p \in FilePaths}
        \cup {<<p, ft>> : p \in {"./a.png", "./f.txt"}, ft \in FileTypes}
ApiCalls ==
    { getMe, getGroups(undefined), getGroups(Obj(<<Prop("token", Str("other"))>>)),
      getBots, destroyBot(Str("b1")), destroyBlock(Str("u1")) }
Payloads ==
    { Obj(<<>>),
      Obj(<<Prop("sender_type", Str("user")), Prop("text", null)>>),
      Obj(<<Prop("sender_type", Str("user")), Prop("text", Str(""))>>),
      Obj(<<Prop("sender_type", Str("bot")), Prop("text", Str("!hello there"))>>),
      Obj(<<Prop("sender_type", Str("user")), Prop("text", Str("hi"))>>) }
Triggers == {Str(""), Str("!hello"), Str("hi all")}

Statuses == {200, 202, 204, 404}
statusText(status) ==
    CASE status = 200 -> "OK"
      [] status = 202 -> "Accepted"
      [] status = 204 -> "No Content"
      [] OTHER -> "Not Found"
BodyTexts == {""} \cup NotJSON \cup {JSONstringify(d) : d \in JSONDocs}
Responses ==
    {[status |-> st, statusText |-> statusText(st), text |-> tx] :
        st \in Statuses, tx \in BodyTexts}
\* The answers to the calls of a Bot: the empty 202 of /bots/post, the bot
\* created, a bot without identifier, the picture hosted, a refusal, and a 202
\* with a body.
BotResponses ==
    {r \in Responses :
        \/ r.status = 202 /\ r.text = ""
        \/ r.status = 200 /\ \E d \in JSONDocs :
              /\ r.text = JSONstringify(d)
              /\ \/ Has(Get(d, "response"), "bot")
                 \/ Has(d, "payload")
        \/ r.status = 404 /\ \E d \in JSONDocs :
              /\ r.text = JSONstringify(d)
              /\ GreaterEq(Get(Get(d, "meta"), "code"), 404)
              /\ Has(Get(d, "meta"), "errors")
        \/ r.status = 202 /\ \E d \in JSONDocs :
              /\ r.text = JSONstringify(d)
              /\ Get(Get(d, "meta"), "code") = Num(400)}
NoResponse == [status |-> 0, statusText |-> "", text |-> ""]

----------------------------------------------------------------------------
(* The state: the token of the environment, the Bot objects, the calls in    *)
(* progress or just completed (promises), and the HTTP exchanges they sent.  *)

Free ==
    [op |-> "free", this |-> 0, args |-> <<>>, pc |-> "", spawner |-> 0,
     env |-> undefined, result |-> Pending]

\* A call: its operation, the Bot it is called on (0: none), its arguments,
\* where it is suspended, the call that started it without being its caller's
\* (0: the program called it and awaits it), the token at its start, and its
\* completion.
Call(op, this, args, pc, spawner, env, result) ==
    [op |-> op, this |-> this, args |-> args, pc |-> pc, spawner |-> spawner,
     env |-> env, result |-> result]

Exchange(call, req) ==
    [call |-> call, req |-> req, state |-> "pending", response |-> NoResponse,
     bodyRead |-> FALSE]

BotRef(n) == [t |-> "Bot", ref |-> n]

Settled(c) == c.op # "free" /\ c.result.k # "pending"

\* The program makes one call at a time and awaits it.
Idle == \A i \in Slots : calls[i].op # "free" /\ calls[i].spawner = 0 => Settled(calls[i])

\* A completed call is forgotten at the next call of the program, once the
\* calls it started and the call that started it have completed too.
Forgotten(i) ==
    /\ Settled(calls[i])
    /\ \A j \in Slots : calls[j].op # "free" /\ calls[j].spawner = i => Settled(calls[j])
    /\ calls[i].spawner # 0 => Settled(calls[calls[i].spawner])

Kept == [i \in Slots |-> IF Forgotten(i) THEN Free ELSE calls[i]]

KeptNet == SelectSeq(net, LAMBDA x : ~Forgotten(x.call))

FreeSlots == {i \in Slots : Kept[i].op = "free"}

NextSlot == CHOOSE i \in FreeSlots : \A j \in FreeSlots : i <= j

Init ==
    /\ GM_TOKEN \in Tokens
    /\ bots = <<>>
    /\ calls = [i \in Slots |-> Free]
    /\ net = <<>>

\* The program sets or clears process.env.GM_TOKEN between its calls.
SetToken(v) ==
    /\ Idle
    /\ v # GM_TOKEN
    /\ GM_TOKEN' = v
    /\ UNCHANGED <<bots, calls, net>>

\* A call that sends a request when `fetch` returns one and is rejected with
\* the error otherwise, `resume` being what the call does with that error.
StartCall(op, this, args, fetch, failed) ==
    /\ Idle
    /\ FreeSlots # {}
    /\ IF fetch.k = "throw"
       THEN /\ calls' = [Kept EXCEPT ![NextSlot] =
                            Call(op, this, args, "", 0, GM_TOKEN, failed)]
            /\ net' = KeptNet
       ELSE /\ calls' = [Kept EXCEPT ![NextSlot] =
                            Call(op, this, args, "fetch", 0, GM_TOKEN, Pending)]
            /\ net' = Append(KeptNet, Exchange(NextSlot, fetch.v))
    /\ UNCHANGED <<GM_TOKEN, bots>>

\* new Bot(botId)
NewBot(botId) ==
    /\ Idle
    /\ FreeSlots # {}
    /\ LET c == Bot(botId)
       IN  IF c.k = "throw"
           THEN /\ calls' = [Kept EXCEPT ![NextSlot] =
                                Call("new Bot", 0, <<botId>>, "", 0, GM_TOKEN, c)]
                /\ bots' = bots
           ELSE /\ Len(bots) < MaxBots
                /\ bots' = Append(bots, c.v)
                /\ calls' = [Kept EXCEPT ![NextSlot] =
                                Call("new Bot", 0, <<botId>>, "", 0, GM_TOKEN,
                                     Return(BotRef(Len(bots) + 1)))]
    /\ net' = KeptNet
    /\ UNCHANGED GM_TOKEN

\* Bot.create(name, groupId, options)
CallCreate(name, groupId, options) ==
    /\ Len(bots) < MaxBots
    /\ LET fetch == requestFetch(GM_TOKEN, Bot_createCall(name, groupId, options))
       IN  StartCall("Bot.create", 0, <<name, groupId, options>>, fetch,
                     Bot_createResume(fetch))

\* bot.sendMessage(text, attachments)
CallSendMessage(b, text, attachments) ==
    LET fetch == requestFetch(GM_TOKEN, sendMessageCall(bots[b], text, attachments))
    IN  StartCall("sendMessage", b, <<text, attachments>>, fetch,
                  sendMessageResume(fetch))

\* A call of the API made by the program: API.getMe(), API.getGroups(), ...
CallRequest(a) ==
    LET fetch == requestFetch(GM_TOKEN, a)
    IN  StartCall("request", 0, <<a>>, fetch, fetch)

\* API.uploadPicture(fileBuffer, contentType)
CallUploadPicture(filePath, contentType) ==
    LET fetch == uploadPictureFetch(GM_TOKEN, [t |-> "buffer", file |-> filePath],
                                    contentType)
    IN  StartCall("uploadPicture", 0, <<Str(filePath), contentType>>, fetch, fetch)

\* API.ImageAttachment.fromFile(filePath, fileType): suspended at fs.readFile.
CallFromFile(filePath, fileType) ==
    /\ Idle
    /\ FreeSlots # {}
    /\ calls' = [Kept EXCEPT ![NextSlot] =
                    Call("fromFile", 0, <<Str(filePath), fileType>>, "readFile", 0,
                         GM_TOKEN, Pending)]
    /\ net' = KeptNet
    /\ UNCHANGED <<GM_TOKEN, bots>>

\* bot.sendImage(text, imagePath): suspended in fromFile, at fs.readFile.  A
\* second slot is kept for the sendMessage it calls.
CallSendImage(b, text, imagePath) ==
    /\ Idle
    /\ Cardinality(FreeSlots) >= 2
    /\ calls' = [Kept EXCEPT ![NextSlot] =
                    Call("sendImage", b, <<text, Str(imagePath)>>, "readFile", 0,
                         GM_TOKEN, Pending)]
    /\ net' = KeptNet
    /\ UNCHANGED <<GM_TOKEN, bots>>

\* message.startsWith(trigger) on new Message(data)
CallStartsWith(data, trigger) ==
    /\ Idle
    /\ FreeSlots # {}
    /\ calls' = [Kept EXCEPT ![NextSlot] =
                    Call("startsWith", 0, <<data, trigger>>, "", 0, GM_TOKEN,
                         Message_startsWith(Message(data), trigger))]
    /\ net' = KeptNet
    /\ UNCHANGED <<GM_TOKEN, bots>>

\* The argument list of the fromFile a call is suspended in: sendImage calls
\* fromFile(imagePath), so that fileType takes its default.
FromFileArgs(c) ==
    IF c.op = "sendImage" THEN <<c.args[2], null>> ELSE c.args

\* fs.readFile settles for the call in slot i: with the bytes of the file, and
\* fromFile goes on to the upload, or with an error of the file system, which
\* rejects fromFile and with it the sendImage awaiting it.
ReadFileSettles(i, ok) ==
    /\ calls[i].op # "free"
    /\ calls[i].pc = "readFile"
    /\ LET a == FromFileArgs(calls[i])
           fetch == fromFileUpload(GM_TOKEN, a[1].s, a[2])
       IN  IF ~ok
           THEN /\ calls' = [calls EXCEPT ![i].pc = "",
                               ![i].result = Throw(Err("Error", undefined,
                                   "ENOENT: no such file or directory", undefined))]
                /\ net' = net
           ELSE IF fetch.k = "throw"
           THEN /\ calls' = [calls EXCEPT ![i].pc = "", ![i].result = fetch]
                /\ net' = net
           ELSE /\ calls' = [calls EXCEPT ![i].pc = "fetch"]
                /\ net' = Append(net, Exchange(i, fetch.v))
    /\ UNCHANGED <<GM_TOKEN, bots>>

\* The completion `fetch(...)` and the code after it hand to the caller of
\* request or uploadPicture, for the response r of exchange h.
Fetched(h, r) ==
    IF calls[net[h].call].op \in {"uploadPicture", "fromFile", "sendImage"}
    THEN uploadPictureResult(r)
    ELSE requestResult(r)

\* sendImage, resumed with the attachment: it calls this.sendMessage, which
\* runs up to its fetch, and returns without waiting for it.
SendImageSend(h, i, attachment, closed) ==
    LET c == calls[i]
        k == CHOOSE j \in Slots : calls[j].op = "free"
                                  /\ \A l \in Slots : calls[l].op = "free" => j <= l
        list == Arr(<<attachment>>)
        fetch == requestFetch(GM_TOKEN, sendMessageCall(bots[c.this], c.args[1], list))
    IN  /\ calls' = [calls EXCEPT
                       ![i].pc = "",
                       ![i].result = Return(undefined),
                       ![k] = Call("sendMessage", c.this, <<c.args[1], list>>,
                                   IF fetch.k = "throw" THEN "" ELSE "fetch", i, GM_TOKEN,
                                   IF fetch.k = "throw" THEN sendMessageResume(fetch)
                                   ELSE Pending)]
        /\ net' = IF fetch.k = "throw" THEN closed
                  ELSE Append(closed, Exchange(k, fetch.v))
        /\ bots' = bots

\* The exchange h ends in `state` with the completion `out` of its fetch and
\* of the code of request or uploadPicture after it; the calls awaiting it
\* are resumed in turn.
Settle(h, state, r, out) ==
    LET i == net[h].call
        c == calls[i]
        closed == [net EXCEPT ![h].state = state, ![h].response = r,
                              ![h].bodyRead = out.bodyRead]
        done(result) == [calls EXCEPT ![i].pc = "", ![i].result = result]
    IN  /\ net[h].state = "pending"
        /\ CASE c.op = "sendMessage" ->
                  /\ calls' = done(sendMessageResume(out.result))
                  /\ net' = closed
                  /\ bots' = bots
             [] c.op = "fromFile" ->
                  /\ calls' = done(fromFileResume(out.result))
                  /\ net' = closed
                  /\ bots' = bots
             [] c.op = "Bot.create" ->
                  LET made == Bot_createResume(out.result)
                  IN  /\ net' = closed
                      /\ IF made.k = "throw"
                         THEN calls' = done(made) /\ bots' = bots
                         ELSE /\ calls' = done(Return(BotRef(Len(bots) + 1)))
                              /\ bots' = Append(bots, made.v)
             [] c.op = "sendImage" ->
                  LET made == fromFileResume(out.result)
                  IN  IF made.k = "throw"
                      THEN calls' = done(made) /\ net' = closed /\ bots' = bots
                      ELSE SendImageSend(h, i, made.v, closed)
             [] OTHER ->
                  /\ calls' = done(out.result)
                  /\ net' = closed
                  /\ bots' = bots
        /\ UNCHANGED GM_TOKEN

\* The server answers exchange h with response r.
FetchSettles(h, r) ==
    /\ h \in 1..Len(net)
    /\ Settle(h, "done", r, Fetched(h, r))

\* The exchange h fails in the network: fetch rejects.
FetchFails(h) ==
    /\ h \in 1..Len(net)
    /\ Settle(h, "failed", NoResponse,
              [result |-> Throw(TypeError("fetch failed")), bodyRead |-> FALSE])

\* The program drives a Bot: it constructs or creates one and sends with it.
Next ==
    \/ \E v \in Tokens : SetToken(v)
    \/ \E botId \in BotIds : NewBot(botId)
    \/ \E name \in BotNames, groupId \in GroupIds, options \in BotOptions :
          CallCreate(name, groupId, options)
    \/ \E b \in 1..Len(bots), text \in Texts, attachments \in AttachmentLists :
          CallSendMessage(b, text, attachments)
    \/ \E b \in 1..Len(bots), text \in Texts, imagePath \in ImagePaths :
          CallSendImage(b, text, imagePath)
    \/ \E i \in Slots, ok \in BOOLEAN : ReadFileSettles(i, ok)
    \/ \E h \in 1..Len(net), r \in BotResponses : FetchSettles(h, r)
    \/ \E h \in 1..Len(net) : FetchFails(h)

Spec == Init /\ [][Next]_vars

\* The program calls the API and the classes of api.js directly.
NextApi ==
    \/ \E v \in Tokens : SetToken(v)
    \/ \E a \in ApiCalls : CallRequest(a)
    \/ \E filePath \in ImagePaths, contentType \in {Str("image/png")} :
          CallUploadPicture(filePath, contentType)
    \/ \E in \in FromFileInputs : CallFromFile(in[1], in[2])
    \/ \E data \in Payloads, trigger \in Triggers : CallStartsWith(data, trigger)
    \/ \E i \in Slots, ok \in BOOLEAN : ReadFileSettles(i, ok)
    \/ \E h \in 1..Len(net), r \in Responses : FetchSettles(h, r)
    \/ \E h \in 1..Len(net) : FetchFails(h)

SpecApi == Init /\ [][NextApi]_vars

----------------------------------------------------------------------------
(* Properties *)

Live == {i \in Slots : calls[i].op # "free"}

\* The HTTP exchanges the call in slot i issued.
ExchangesOf(i) == {h \in 1..Len(net) : net[h].call = i}

\* A parsed body that carries a failing meta envelope: meta.code >= 400.
FailingEnvelope(d) ==
    /\ Has(d, "meta")
    /\ Has(Get(d, "meta"), "code")
    /\ Get(Get(d, "meta"), "code").t = "number"
    /\ Get(Get(d, "meta"), "code").n >= 400

\* The exchanges of direct calls of request that were answered with a body
\* request parses: status other than 202 and 204, text not empty, valid JSON.
ParsedAnswers ==
    {h \in 1..Len(net) :
        /\ calls[net[h].call].op = "request"
        /\ net[h].state = "done"
        /\ net[h].response.status \notin {202, 204}
        /\ net[h].response.text # ""
        /\ JSONparse(net[h].response.text).k = "return"}

\* C1: sendImage does not complete before the POST /bots/post it started has
\* completed, and a failure of that post is the failure of sendImage: once a
\* sendImage has completed, every sendMessage it started has completed, and
\* with an error only if sendImage completed with that error.
C1_SendImageCompletesAfterPost ==
    \A i \in Live : \A j \in Live :
        (calls[i].op = "sendImage" /\ Settled(calls[i]) /\ calls[j].spawner = i)
        => /\ Settled(calls[j])
           /\ \A h \in ExchangesOf(j) : net[h].state # "pending"
           /\ calls[j].result.k = "throw" => calls[i].result = calls[j].result

\* C2: Bot.create posts {bot: {name, group_id, ...options}} to /bots once, so
\* that every key of the options is in the bot object of the body, and the
\* Bot it returns holds the bot_id of the response.
C2_CreateSendsOptions ==
    \A i \in Live :
        calls[i].op = "Bot.create" /\ Truthy(calls[i].env)
        => /\ Cardinality(ExchangesOf(i)) = 1
           /\ \A h \in ExchangesOf(i) :
                /\ net[h].req.method = "POST"
                /\ startsWith(net[h].req.url, BASE_URL \o "/bots?")
                /\ net[h].req.body =
                     Str(JSONstringify(Obj(<<Prop("bot",
                         Spread(Obj(<<Prop("name", calls[i].args[1]),
                                      Prop("group_id", calls[i].args[2])>>),
                                calls[i].args[3]))>>)))
                /\ calls[i].result.k = "return"
                   => bots[calls[i].result.v.ref].botId
                        = Get(Get(Get(JSONparse(net[h].response.text).v, "response"),
                                  "bot"), "bot_id")

\* C3: for a response request parses and that carries no failing envelope,
\* request returns the value under `response` when the body has that field
\* and the parsed body itself otherwise, and never fails.
C3_RequestUnwraps ==
    \A h \in ParsedAnswers :
        LET d == JSONparse(net[h].response.text).v
        IN  ~FailingEnvelope(d)
            => calls[net[h].call].result =
                 Return(IF Has(d, "response") THEN Get(d, "response") ELSE d)

\* C4: for every parsed body whose meta.code is >= 400, whatever meta.errors
\* is, request fails with an ApiError that carries the HTTP status, the whole
\* parsed body, and as message the joined meta.errors list (in the wording of
\* the client: "API Error: " before the list, ", " between its items).
C4_FailingEnvelopeIsApiError ==
    \A h \in ParsedAnswers :
        LET d == JSONparse(net[h].response.text).v
            errors == Get(Get(d, "meta"), "errors")
            result == calls[net[h].call].result
        IN  FailingEnvelope(d)
            => /\ result.k = "throw"
               /\ result.v.name = "ApiError"
               /\ result.v.statusCode = Num(net[h].response.status)
               /\ result.v.responseJSON = d
               /\ errors.t = "array"
                  => result.v.message = "API Error: " \o join(errors.a, ", ")

\* The direct calls of request, of its bindings and of uploadPicture, and the
\* calls of the Bot that are a binding of request.
ClientCalls ==
    {i \in Live : calls[i].op \in {"request", "uploadPicture", "Bot.create", "sendMessage"}}

\* C5: a call of request, of an operation bound to it or of the binary upload
\* made while no access token is configured fails with an ApiError of status
\* 401 and issues no HTTP call.
C5_NoTokenFailsBeforeNetwork ==
    \A i \in ClientCalls :
        ~Truthy(calls[i].env)
        => /\ calls[i].result.k = "throw"
           /\ calls[i].result.v.name = "ApiError"
           /\ calls[i].result.v.statusCode = Num(401)
           /\ ExchangesOf(i) = {}

\* The binary upload was called with the token set to the empty string, and
\* has failed.
C5_Witness ==
    \E i \in Live : /\ calls[i].op = "uploadPicture"
                     /\ calls[i].env = Str("")
                     /\ Settled(calls[i])

\* C6: for a response of status 202 or 204, request returns null whatever the
\* body is, raises no error and does not read the body.
C6_EmptyStatusReturnsNull ==
    \A h \in 1..Len(net) :
        (/\ calls[net[h].call].op = "request"
         /\ net[h].state = "done"
         /\ net[h].response.status \in {202, 204})
        => /\ calls[net[h].call].result = Return(null)
           /\ ~net[h].bodyRead

\* A 202 or 204 whose body is a failing envelope, and one whose body is not
\* JSON, have been answered to request.
C6_Witness ==
    \E h \in 1..Len(net) :
        /\ calls[net[h].call].op = "request"
        /\ net[h].state = "done"
        /\ net[h].response.status = 204
        /\ JSONparse(net[h].response.text).k = "return"
        /\ FailingEnvelope(JSONparse(net[h].response.text).v)

\* What sendMessage in slot i is to send and to wait for: one exchange, a
\* POST to /bots/post of {bot_id, text, attachments} with the identifier of
\* its Bot and the empty list for attachments left out; the call completes
\* after the exchange, and with the empty result on a 202.
PostsOnce(i) ==
    /\ Cardinality(ExchangesOf(i)) = 1
    /\ \A h \in ExchangesOf(i) :
         /\ net[h].req.method = "POST"
         /\ startsWith(net[h].req.url, BASE_URL \o "/bots/post?")
         /\ net[h].req.body =
              Str(JSONstringify(Obj(<<
                  Prop("bot_id", bots[calls[i].this].botId),
                  Prop("text", calls[i].args[1]),
                  Prop("attachments", IF calls[i].args[2] = undefined THEN Arr(<<>>)
                                      ELSE calls[i].args[2])>>)))
         /\ Settled(calls[i]) => net[h].state # "pending"
         /\ (net[h].state = "done" /\ net[h].response.status = 202)
            => calls[i].result = Return(undefined)

\* C7 as stated: every call of sendMessage issues exactly one exchange, the
\* POST to /bots/post with its Bot's identifier, completes only after it, is
\* not retried and yields the empty result on a 202.
C7_SendMessagePostsOnce ==
    \A i \in Live : calls[i].op = "sendMessage" => PostsOnce(i)

\* C7, amended: with an access token configured a call of sendMessage does
\* so; without one it issues no exchange and fails with the ApiError of
\* status 401.
C7_SendMessagePostsOnceWithToken ==
    \A i \in Live :
        calls[i].op = "sendMessage"
        => IF Truthy(calls[i].env) THEN PostsOnce(i)
           ELSE /\ ExchangesOf(i) = {}
                /\ calls[i].result.k = "throw"
                /\ calls[i].result.v.statusCode = Num(401)

\* The program has sent a message with attachments and got a 202, while the
\* post of an earlier sendImage on a Bot is still in flight.
C7_Witness ==
    \E i \in Live, j \in Live :
        /\ calls[i].op = "sendMessage" /\ calls[i].spawner = 0
        /\ calls[i].args[2] # undefined
        /\ calls[i].result = Return(undefined)
        /\ \E h \in ExchangesOf(i) : net[h].response.status = 202
        /\ calls[j].op = "sendMessage" /\ calls[j].spawner # 0
        /\ ~Settled(calls[j])

\* C8: Message.startsWith(prefix) returns the boolean false when the text is
\* absent (null or undefined) and, for a text that is present, the empty one
\* included, the boolean of the prefix match; it never throws.
C8_StartsWithIsBoolean ==
    \A i \in Live :
        calls[i].op = "startsWith"
        => LET text == Get(calls[i].args[1], "text")
           IN  calls[i].result =
                 Return(Bool(text.t = "string"
                             /\ startsWith(text.s, calls[i].args[2].s)))

\* The content type the table of extensions gives.
InferredType(ext) ==
    CASE ext = ".png" -> "image/png"
      [] ext \in {".jpg", ".jpeg"} -> "image/jpeg"
      [] ext = ".gif" -> "image/gif"
      [] OTHER -> "application/octet-stream"

\* The upload of exchange h is the one fromFile in slot i is to make, and the
\* result of the call, if it returns, is the image attachment of the hosted
\* URL.
UploadsFile(i, h) ==
    LET filePath == calls[i].args[1].s
        fileType == calls[i].args[2]
    IN  /\ net[h].req.method = "POST"
        /\ net[h].req.url = "https://image.groupme.com/pictures"
        /\ Get(net[h].req.headers, "Content-Type") =
             IF fileType \in {undefined, null, Str("")}
             THEN Str(InferredType(toLowerCase(extname(filePath))))
             ELSE fileType
        /\ calls[i].result.k = "return"
           => /\ Get(calls[i].result.v, "type") = Str("image")
              /\ Get(calls[i].result.v, "url")
                   = Get(Get(JSONparse(net[h].response.text).v, "payload"), "url")

\* C9 as stated: every call of fromFile issues exactly one binary upload,
\* with the type given by the caller or else inferred from the extension, and
\* results in the image attachment of the hosted URL.
C9_FromFileUploadsOnce ==
    \A i \in Live :
        (calls[i].op = "fromFile" /\ Settled(calls[i]))
        => /\ Cardinality(ExchangesOf(i)) = 1
           /\ \A h \in ExchangesOf(i) : UploadsFile(i, h)

\* C9, amended: fromFile issues that one upload once the file is read and an
\* access token is configured, and no upload when the read fails or the token
\* is missing.
C9_FromFileUploadsOnceRead ==
    \A i \in Live :
        calls[i].op = "fromFile"
        => /\ \A h \in ExchangesOf(i) : UploadsFile(i, h)
           /\ Cardinality(ExchangesOf(i)) =
                IF \/ calls[i].pc = "readFile"
                   \/ calls[i].result.k = "throw" /\ calls[i].result.v.name = "Error"
                   \/ ~Truthy(calls[i].env)
                THEN 0 ELSE 1

\* fromFile has returned the attachment of a file of an extension the table
\* lacks, and so uploaded as application/octet-stream.
C9_Witness ==
    \E i \in Live :
        /\ calls[i].op = "fromFile"
        /\ calls[i].args = <<Str("./f.txt"), undefined>>
        /\ calls[i].result.k = "return"

\* An identifier that is empty or absent.
EmptyId(v) == v \in {undefined, null, Str("")}

\* C10: new Bot(id) with an empty or absent identifier fails with the
\* precondition error, with a non-empty one it yields a Bot holding it, and
\* either way it issues no HTTP exchange; every Bot that exists, constructed
\* or created, holds a non-empty identifier.
C10_BotHoldsIdentifier ==
    /\ \A i \in Live :
         calls[i].op = "new Bot"
         => /\ ExchangesOf(i) = {}
            /\ IF EmptyId(calls[i].args[1])
               THEN /\ calls[i].result.k = "throw"
                    /\ calls[i].result.v.message = "Bot ID is required"
               ELSE /\ calls[i].result.k = "return"
                    /\ bots[calls[i].result.v.ref].botId = calls[i].args[1]
    /\ \A n \in 1..Len(bots) : ~EmptyId(bots[n].botId)

\* A Bot made by Bot.create exists, and a construction with the empty
\* identifier has just failed.
C10_Witness ==
    /\ \E n \in 1..Len(bots) : bots[n].botId = Str("b1")
    /\ \E i \in Live : /\ calls[i].op = "new Bot"
                       /\ calls[i].args[1] = Str("")
                       /\ calls[i].result.k = "throw"

\* The sendMessage calls the call in slot i started.
StartedBy(i) == {j \in Live : calls[j].spawner = i}

\* The exchanges of the sendMessage calls the call in slot i started.
PostsOf(i) == UNION {ExchangesOf(j) : j \in StartedBy(i)}

\* C11: in sendImage the file read, the binary upload and the bot post occur
\* in this order and at most once each; a failed read leaves no upload and no
\* post, a failed upload (an answer that is not 2xx, or no token) leaves no
\* post, and sendImage then fails with the error of the read or of the upload.
C11_SendImageInOrder ==
    \A i \in Live :
        calls[i].op = "sendImage"
        => /\ Cardinality(ExchangesOf(i)) <= 1
           /\ Cardinality(StartedBy(i)) <= 1
           /\ Cardinality(PostsOf(i)) <= 1
           /\ calls[i].pc = "readFile" => ExchangesOf(i) = {} /\ StartedBy(i) = {}
           /\ StartedBy(i) # {} => ExchangesOf(i) # {}
           /\ \A h \in ExchangesOf(i) :
                /\ net[h].req.url = "https://image.groupme.com/pictures"
                /\ net[h].state = "pending" => StartedBy(i) = {}
                /\ \A g \in PostsOf(i) : h < g
                /\ (net[h].state = "done"
                    /\ ~(net[h].response.status \in 200..299))
                   => /\ StartedBy(i) = {}
                      /\ calls[i].result =
                           Throw(ApiError(Num(net[h].response.status),
                                 "Image Service Error: " \o net[h].response.statusText,
                                 null))
           /\ (calls[i].pc # "readFile" /\ ~Truthy(calls[i].env))
              => /\ ExchangesOf(i) = {} /\ StartedBy(i) = {}
                 /\ calls[i].result.k = "throw"
                 /\ \/ calls[i].result.v.name = "Error"
                    \/ calls[i].result.v.statusCode = Num(401)
           /\ (calls[i].result.k = "throw" /\ calls[i].result.v.name = "Error")
              => ExchangesOf(i) = {} /\ StartedBy(i) = {}
           /\ calls[i].result.k = "throw" => StartedBy(i) = {}

\* A sendImage whose upload was refused with a 404 has failed.
C11_Witness ==
    \E i \in Live :
        /\ calls[i].op = "sendImage"
        /\ calls[i].result.k = "throw"
        /\ \E h \in ExchangesOf(i) : net[h].response.status = 404

\* C12: every JSON request that reaches the network carries, as its `token`
\* query parameter, the access token read from the configuration for that
\* call, whatever query parameters the caller supplies, a `token` among them
\* included: the URL is the path followed by "?token=" and that token, and
\* then ends or goes on with "&".
C12_TokenParameterIsAccessToken ==
    \A i \in Live : \A h \in ExchangesOf(i) :
        calls[i].op = "request"
        => LET expected == BASE_URL \o calls[i].args[1].path
                             \o "?token=" \o calls[i].env.s
           IN  \/ net[h].req.url = expected
               \/ startsWith(net[h].req.url, expected \o "&")

====
